---- MODULE Spec2Model ----
(***************************************************************************)
(* Model of the incremental text-reveal engine, the React hook             *)
(* useTextStream of src/components/ui/response-stream.tsx.                 *)
(*                                                                         *)
(* A text is a sequence of one-character strings.  Every call of           *)
(* startStreaming() is a session: an async task that runs from one await   *)
(* to the next in one atomic step.  The position of a task (pc) is the     *)
(* await it is suspended at:                                               *)
(*   tw_pause  line 99    tw_delay  line 107   (string, typewriter)        *)
(*   fd_pause  line 119   fd_delay  line 127   (string, fade)              *)
(*   it_next   lines 173/139 (the 10ms delay, then the iterator's next())  *)
(*   itf_pause line 156   itf_delay line 164   (fragments, fade)           *)
(*   done      the function has returned                                   *)
(***************************************************************************)
EXTENDS Integers, Sequences, FiniteSets, TLC

\* ------------------------------------------------------------------ bounds
\* MaxInput bounds the input of one behaviour: one unit for each call of
\* startStreaming, one for each character of a source.
MaxInput == 4
MaxSessions == 2

Alphabet == {"a", " "}
Whitespace == {" "}
Errors == {"E1", "E2"}
Modes == {"typewriter", "fade"}
Speeds == {20}
Overrides == {<<>>, <<0>>, <<2>>}

Sessions == 1..MaxSessions
Texts == UNION {[1..n -> Alphabet] : n \in 0..(MaxInput - 1)}
Fragments == Texts \ {<<>>}

VARIABLES
  displayedText,       \* useState("")
  isComplete,          \* useState(false)
  segments,            \* useState([])
  pauseRef,            \* pauseRef.current
  abortControllerRef,  \* abortControllerRef.current: 0 is null, else the session whose controller it is
  aborted,             \* aborted[s]: signal.aborted of the controller made by session s
  task,                \* task[s]: the locals of the s-th call of startStreaming
  nextId,              \* number of the next call of startStreaming
  consumed,            \* consumed[s]: the fragments the iterator of session s has yielded
  onCompleteCalls,     \* onCompleteCalls[s]: how often session s has called onComplete
  onErrorCalls,        \* onErrorCalls[s]: the errors session s has passed to onError
  raised,              \* raised[s]: the errors the iterator of session s has thrown
  lastShown,           \* lastShown[s]: the last value session s passed to setDisplayedText
  used,                \* the input so far: one for each call of startStreaming, one for each source character
  pacing               \* the props speed, fadeDuration, segmentDelay, characterChunkSize under which a pacing getter is called, and what it returned

vars == <<displayedText, isComplete, segments, pauseRef, abortControllerRef, aborted,
          task, nextId, consumed, onCompleteCalls, onErrorCalls, raised, lastShown, used, pacing>>

\* ------------------------------------------------------- string functions
Min(a, b) == IF a < b THEN a ELSE b

\* String.prototype.slice(from, to) for 0 <= from
Slice(str, from, to) == SubSeq(str, from + 1, Min(to, Len(str)))

IsWs(c) == c \in Whitespace

\* str.split(/\s+/): the tokens between the maximal runs of whitespace
RECURSIVE SplitFrom(_, _, _, _)
SplitFrom(str, pos, acc, cur) ==
  IF pos > Len(str) THEN Append(acc, cur)
  ELSE IF IsWs(str[pos])
       THEN IF pos > 1 /\ IsWs(str[pos - 1])
            THEN SplitFrom(str, pos + 1, acc, cur)
            ELSE SplitFrom(str, pos + 1, Append(acc, cur), <<>>)
       ELSE SplitFrom(str, pos + 1, acc, Append(cur, str[pos]))

Split(str) == SplitFrom(str, 1, <<>>, <<>>)

\* words.join(sep)
RECURSIVE Join(_, _)
Join(words, sep) ==
  IF Len(words) = 0 THEN <<>>
  ELSE IF Len(words) = 1 THEN words[1]
  ELSE words[1] \o sep \o Join(Tail(words), sep)

\* words.slice(0, n)
Take(words, n) == SubSeq(words, 1, Min(n, Len(words)))

\* words.pop() || "" : the value; the array loses its last element
PopValue(words) == IF Len(words) = 0 THEN <<>> ELSE words[Len(words)]
PopRest(words) == IF Len(words) = 0 THEN <<>> ELSE SubSeq(words, 1, Len(words) - 1)

\* getCharacterChunkSize(): the override if given, else speed 1-100 mapped to 1-5
GetCharacterChunkSize(speed, characterChunkSize) ==
  IF characterChunkSize # <<>> THEN characterChunkSize[1]
  ELSE LET m == ((speed * 4) \div 100) + 1 IN IF m > 1 THEN m ELSE 1

\* Speeds at which the double (speed / 100) * 750 lies above the exact
\* product, which is an integer there: 800 minus it lies just below an
\* integer and Math.floor gives one less than exact arithmetic does
\* (0.56 * 750 is 420.00000000000006).  At every other speed from 1 to
\* 100, and for the products with 190 and with 4, floor of the double
\* result equals floor of the exact result.
FadeProductAbove == {56, 68}

\* lines 44-48: getFadeDuration(): the override if given, else speed 1-100
\* mapped to 800-50ms
GetFadeDuration(speed, fadeDuration) ==
  IF fadeDuration # <<>> THEN fadeDuration[1]
  ELSE LET exact == 800 - ((750 * speed + 99) \div 100)
       IN IF speed \in FadeProductAbove THEN exact - 1 ELSE exact

\* getSegmentDelay() with a fault: two milliseconds less for each unit of speed
GetSegmentDelayLinear(speed, segmentDelay) ==
  IF segmentDelay # <<>> THEN segmentDelay[1]
  ELSE 200 - 2 * speed

\* lines 50-54: getSegmentDelay(): the override if given, else speed 1-100
\* mapped to 200-10ms
GetSegmentDelay(speed, segmentDelay) ==
  IF segmentDelay # <<>> THEN segmentDelay[1]
  ELSE 200 - ((190 * speed + 99) \div 100)

\* lines 17-25: the props of the hook and their defaults; got is what the
\* pacing getter that was called returned
DefaultProps ==
  [speed |-> 20, fadeDuration |-> <<>>, segmentDelay |-> <<>>,
   characterChunkSize |-> <<>>, got |-> <<>>]

\* ------------------------------------------------------------- task steps
\* The locals of one call of startStreaming.
IdleTask ==
  [pc |-> "idle", kind |-> "none", mode |-> "typewriter", textStream |-> <<>>,
   chunkSize |-> 0, i |-> 0, words |-> <<>>, currentText |-> <<>>,
   wordBuffer |-> <<>>, wordIndex |-> 0, newSegments |-> <<>>]

\* What one run of a task between two awaits does: the new locals (t), the
\* argument of setDisplayedText (dt) and of setSegments (sg) if called,
\* whether setIsComplete(true) and onComplete ran (fin), the error passed
\* to onError (err).
Quiet(t) == [t |-> t, dt |-> <<>>, sg |-> <<>>, fin |-> FALSE, err |-> <<>>]

\* the completion guard with a fault: inverted, and left out
CompletionGuardInverted(ab) == ab
CompletionGuardMissing(ab) == TRUE

\* line 184: the completion guard
CompletionGuard(ab) == ~ab

\* lines 184-187: completion, after e
Finish(e, ab) ==
  [e EXCEPT !.t = [e.t EXCEPT !.pc = "done"], !.fin = CompletionGuard(ab)]

\* the guard of the catch clause with a fault: left out
CatchGuardMissing(ab) == TRUE

\* the guard of the catch clause with a fault: inverted
CatchGuardInverted(ab) == ab

\* line 189: the guard of the catch clause
CatchGuard(ab) == ~ab

\* lines 188-193: the iterator threw err
Catch(t, ab, err) ==
  [Quiet([t EXCEPT !.pc = "done"]) EXCEPT !.err = IF CatchGuard(ab) THEN <<err>> ELSE <<>>]

\* lines 100, 120, 157: `if (signal.aborted) break` inside `while (pauseRef.current)`
\* leaves the while loop only, so the step below it is committed
PauseWakeCommits(ab, paused) == ab \/ ~paused

\* TwCommit with a fault: the chunk is put in front of the text
TwCommitPrepend(t) ==
  LET chunk == Slice(t.textStream, t.i, t.i + t.chunkSize)
      cur == chunk \o t.currentText
  IN [Quiet([t EXCEPT !.currentText = cur, !.pc = "tw_delay"]) EXCEPT !.dt = <<cur>>]

\* lines 103-109
TwCommit(t) ==
  LET chunk == Slice(t.textStream, t.i, t.i + t.chunkSize)
      cur == t.currentText \o chunk
  IN [Quiet([t EXCEPT !.currentText = cur, !.pc = "tw_delay"]) EXCEPT !.dt = <<cur>>]

\* lines 96-101, at the loop test
TwHead(t, ab, paused) ==
  IF t.i < Len(t.textStream)
  THEN IF ab THEN Finish(Quiet(t), ab)
       ELSE IF paused THEN Quiet([t EXCEPT !.pc = "tw_pause"])
       ELSE TwCommit(t)
  ELSE Finish(Quiet(t), ab)

\* TwPauseWake with a fault: leaving the pause loop leaves the chunk loop too
TwPauseWakeCancels(t, ab, paused) ==
  IF paused THEN Quiet(t) ELSE Finish(Quiet(t), ab)

\* lines 99-101, the 100ms timer fired
TwPauseWake(t, ab, paused) ==
  IF PauseWakeCommits(ab, paused) THEN TwCommit(t) ELSE Quiet(t)

\* TwDelayWake with a fault: the loop advances by one character, not by a chunk
TwDelayWakeByOne(t, ab, paused) ==
  TwHead([t EXCEPT !.i = @ + 1], ab, paused)

\* lines 107-109 and 96, the pacing timer fired
TwDelayWake(t, ab, paused) ==
  TwHead([t EXCEPT !.i = @ + t.chunkSize], ab, paused)

\* FdCommit with a fault: the segment text has no trailing space
FdCommitNoSpace(t) ==
  LET segs == Append(t.newSegments, [text |-> t.words[t.i + 1], index |-> t.i])
      shown == Join(Take(t.words, t.i + 1), <<" ">>) \o <<" ">>
  IN [Quiet([t EXCEPT !.newSegments = segs, !.pc = "fd_delay"])
        EXCEPT !.dt = <<shown>>, !.sg = <<segs>>]

\* lines 123-129
FdCommit(t) ==
  LET segs == Append(t.newSegments, [text |-> t.words[t.i + 1] \o <<" ">>, index |-> t.i])
      shown == Join(Take(t.words, t.i + 1), <<" ">>) \o <<" ">>
  IN [Quiet([t EXCEPT !.newSegments = segs, !.pc = "fd_delay"])
        EXCEPT !.dt = <<shown>>, !.sg = <<segs>>]

\* lines 116-121, at the loop test
FdHead(t, ab, paused) ==
  IF t.i < Len(t.words)
  THEN IF ab THEN Finish(Quiet(t), ab)
       ELSE IF paused THEN Quiet([t EXCEPT !.pc = "fd_pause"])
       ELSE FdCommit(t)
  ELSE Finish(Quiet(t), ab)

\* lines 119-121, the 100ms timer fired
FdPauseWake(t, ab, paused) ==
  IF PauseWakeCommits(ab, paused) THEN FdCommit(t) ELSE Quiet(t)

\* lines 127-129 and 116, the segment delay fired
FdDelayWake(t, ab, paused) ==
  FdHead([t EXCEPT !.i = @ + 1], ab, paused)

\* ItfCommit with a fault: wordIndex is not incremented
ItfCommitSameIndex(t) ==
  LET word == Head(t.words)
      segs == Append(t.newSegments, [text |-> word \o <<" ">>, index |-> t.wordIndex])
  IN [Quiet([t EXCEPT !.newSegments = segs,
                      !.currentText = @ \o word \o <<" ">>, !.pc = "itf_delay"])
        EXCEPT !.sg = <<segs>>]

\* lines 160-166; words holds the words of this chunk not yet staged
ItfCommit(t) ==
  LET word == Head(t.words)
      segs == Append(t.newSegments, [text |-> word \o <<" ">>, index |-> t.wordIndex])
  IN [Quiet([t EXCEPT !.newSegments = segs, !.wordIndex = @ + 1,
                      !.currentText = @ \o word \o <<" ">>, !.pc = "itf_delay"])
        EXCEPT !.sg = <<segs>>]

\* ItfAfterWords with a fault: the unfinished word in the buffer is shown too
ItfAfterWordsWithBuffer(t) ==
  [Quiet([t EXCEPT !.words = <<>>, !.pc = "it_next"])
     EXCEPT !.dt = <<t.currentText \o t.wordBuffer>>]

\* lines 169-173: after the word loop, however it was left
ItfAfterWords(t) ==
  [Quiet([t EXCEPT !.words = <<>>, !.pc = "it_next"]) EXCEPT !.dt = <<t.currentText>>]

\* lines 153-158, at the loop test
ItfHead(t, ab, paused) ==
  IF Len(t.words) > 0
  THEN IF ab THEN ItfAfterWords(t)
       ELSE IF paused THEN Quiet([t EXCEPT !.pc = "itf_pause"])
       ELSE ItfCommit(t)
  ELSE ItfAfterWords(t)

\* lines 156-158, the 100ms timer fired
ItfPauseWake(t, ab, paused) ==
  IF PauseWakeCommits(ab, paused) THEN ItfCommit(t) ELSE Quiet(t)

\* lines 164-166 and 153, the segment delay fired
ItfDelayWake(t, ab, paused) ==
  ItfHead([t EXCEPT !.words = Tail(@)], ab, paused)

\* ItfBuffer with a fault: the buffered start of the word is left out
ItfBufferDropped(t, chunk) ==
  LET words == Split(chunk)
  IN [t EXCEPT !.wordBuffer = PopValue(words), !.words = PopRest(words)]

\* lines 147-151
ItfBuffer(t, chunk) ==
  LET words == Split(t.wordBuffer \o chunk)
  IN [t EXCEPT !.wordBuffer = PopValue(words), !.words = PopRest(words)]

\* ItChunk with a fault: in typewriter mode the fragment replaces the text
ItChunkReplace(t, ab, paused, chunk) ==
  IF ab THEN Finish(Quiet(t), ab)
  ELSE IF t.mode = "typewriter"
       THEN LET cur == chunk
            IN [Quiet([t EXCEPT !.currentText = cur, !.pc = "it_next"]) EXCEPT !.dt = <<cur>>]
       ELSE ItfHead(ItfBuffer(t, chunk), ab, paused)

\* lines 139-173: the iterator yielded chunk
ItChunk(t, ab, paused, chunk) ==
  IF ab THEN Finish(Quiet(t), ab)
  ELSE IF t.mode = "typewriter"
       THEN LET cur == t.currentText \o chunk
            IN [Quiet([t EXCEPT !.currentText = cur, !.pc = "it_next"]) EXCEPT !.dt = <<cur>>]
       ELSE ItfHead(ItfBuffer(t, chunk), ab, paused)

\* ItEnd with a fault: the flushed segment gets a trailing space
ItEndSpaced(t, ab) ==
  IF t.mode = "fade" /\ t.wordBuffer # <<>> /\ ~ab
  THEN LET segs == Append(t.newSegments,
                          [text |-> t.wordBuffer \o <<" ">>, index |-> t.wordIndex])
       IN Finish([Quiet([t EXCEPT !.newSegments = segs]) EXCEPT
                    !.dt = <<t.currentText \o t.wordBuffer>>, !.sg = <<segs>>], ab)
  ELSE Finish(Quiet(t), ab)

\* lines 176-187: the iterator is exhausted
ItEnd(t, ab) ==
  IF t.mode = "fade" /\ t.wordBuffer # <<>> /\ ~ab
  THEN LET segs == Append(t.newSegments, [text |-> t.wordBuffer, index |-> t.wordIndex])
       IN Finish([Quiet([t EXCEPT !.newSegments = segs]) EXCEPT
                    !.dt = <<t.currentText \o t.wordBuffer>>, !.sg = <<segs>>], ab)
  ELSE Finish(Quiet(t), ab)

\* lines 90-139: the body of startStreaming up to its first await
Begin(t, ab, paused) ==
  IF t.kind = "string"
  THEN IF t.mode = "typewriter" THEN TwHead(t, ab, paused) ELSE FdHead(t, ab, paused)
  ELSE Quiet([t EXCEPT !.pc = "it_next"])

\* The locals of a call of startStreaming on a string
StringTask(str, mode, chunkSize) ==
  [IdleTask EXCEPT !.kind = "string", !.mode = mode, !.textStream = str,
                   !.chunkSize = IF mode = "typewriter" THEN chunkSize ELSE 0,
                   !.words = IF mode = "fade" THEN Split(str) ELSE <<>>]

\* The locals of a call of startStreaming on an AsyncIterable
IterTask(mode) == [IdleTask EXCEPT !.kind = "iter", !.mode = mode]

\* ---------------------------------------------------------------- actions
\* lines 36-41: the state of the hook when it is mounted
HookInit ==
  /\ displayedText = <<>>
  /\ isComplete = FALSE
  /\ segments = <<>>
  /\ pauseRef = FALSE
  /\ abortControllerRef = 0
  /\ aborted = [s \in Sessions |-> FALSE]
  /\ task = [s \in Sessions |-> IdleTask]
  /\ nextId = 1
  /\ consumed = [s \in Sessions |-> <<>>]
  /\ onCompleteCalls = [s \in Sessions |-> 0]
  /\ onErrorCalls = [s \in Sessions |-> <<>>]
  /\ raised = [s \in Sessions |-> <<>>]
  /\ lastShown = [s \in Sessions |-> <<>>]
  /\ used = 0

Init == HookInit /\ pacing = DefaultProps

\* A session that has been cancelled and has returned is forgotten: its
\* locals are unreachable, and so is what it consumed and showed.
DoneTask == [IdleTask EXCEPT !.pc = "done"]

Forgotten(c, tk) == c # 0 /\ tk[c].pc = "done"

\* the signals after controller c is aborted (c = 0: there is none)
AbortSignal(c, ab) == IF c # 0 THEN [ab EXCEPT ![c] = TRUE] ELSE ab

Forget(c) ==
  /\ task' = IF Forgotten(c, task) THEN [task EXCEPT ![c] = DoneTask] ELSE task
  /\ consumed' = IF Forgotten(c, task) THEN [consumed EXCEPT ![c] = <<>>] ELSE consumed
  /\ lastShown' = IF Forgotten(c, task) THEN [lastShown EXCEPT ![c] = <<>>] ELSE lastShown

\* controller c is aborted (c = 0: there is none)
Abort(c) ==
  /\ aborted' = AbortSignal(c, aborted)
  /\ Forget(c)

\* The setters and callbacks of one run e of session s, which consumed the
\* fragments frags, on top of the state (dt0, sg0, ic0) the run started from.
Apply(s, e, frags, dt0, sg0, ic0) ==
  LET gone == aborted[s] /\ e.t.pc = "done"
  IN /\ task' = [task EXCEPT ![s] = IF gone THEN DoneTask ELSE e.t]
     /\ consumed' = [consumed EXCEPT ![s] = IF gone THEN <<>> ELSE @ \o frags]
     /\ lastShown' = [lastShown EXCEPT ![s] = IF gone THEN <<>>
                                              ELSE IF e.dt # <<>> THEN e.dt[1] ELSE @]
     /\ displayedText' = IF e.dt # <<>> THEN e.dt[1] ELSE dt0
     /\ segments' = IF e.sg # <<>> THEN e.sg[1] ELSE sg0
     /\ isComplete' = (e.fin \/ ic0)
     /\ onCompleteCalls' = [onCompleteCalls EXCEPT ![s] = IF e.fin THEN @ + 1 ELSE @]
     /\ onErrorCalls' = [onErrorCalls EXCEPT ![s] = @ \o e.err]

\* The state of the hook that reset() reads and writes
Hook ==
  [displayedText |-> displayedText, isComplete |-> isComplete, segments |-> segments,
   pauseRef |-> pauseRef, abortControllerRef |-> abortControllerRef, aborted |-> aborted]

\* reset() with a fault: the pause flag is left as it was
ResetKeepsPause(h) ==
  [displayedText |-> <<>>, isComplete |-> FALSE, segments |-> <<>>,
   pauseRef |-> h.pauseRef,
   abortControllerRef |-> 0,
   aborted |-> AbortSignal(h.abortControllerRef, h.aborted)]

\* lines 62-72: the state reset() leaves when called in state h
ResetOf(h) ==
  [displayedText |-> <<>>, isComplete |-> FALSE, segments |-> <<>>,
   pauseRef |-> FALSE,
   abortControllerRef |-> 0,
   aborted |-> AbortSignal(h.abortControllerRef, h.aborted)]

\* lines 62-72: reset()
Reset ==
  LET r == ResetOf(Hook)
  IN /\ displayedText' = r.displayedText
     /\ isComplete' = r.isComplete
     /\ segments' = r.segments
     /\ pauseRef' = r.pauseRef
     /\ aborted' = r.aborted
     /\ abortControllerRef' = r.abortControllerRef
     /\ Forget(abortControllerRef)
     /\ UNCHANGED <<nextId, onCompleteCalls, onErrorCalls, raised, used, pacing>>

\* lines 74-77: pause()
Pause ==
  /\ pauseRef' = TRUE
  /\ UNCHANGED <<displayedText, isComplete, segments, abortControllerRef, aborted, task,
                 nextId, consumed, onCompleteCalls, onErrorCalls, raised, lastShown, used, pacing>>

\* lines 79-82: resume()
Resume ==
  /\ pauseRef' = FALSE
  /\ UNCHANGED <<displayedText, isComplete, segments, abortControllerRef, aborted, task,
                 nextId, consumed, onCompleteCalls, onErrorCalls, raised, lastShown, used, pacing>>

\* lines 201-205: the cleanup of the effect (unmount, or textStream changed)
Cleanup ==
  /\ abortControllerRef # 0
  /\ Abort(abortControllerRef)
  /\ UNCHANGED <<displayedText, isComplete, segments, pauseRef, abortControllerRef,
                 nextId, onCompleteCalls, onErrorCalls, raised, used, pacing>>

\* lines 84-88 and the body up to the first await: startStreaming() with
\* locals t0, called by the effect (line 198) or by the consumer
Start(t0) ==
  /\ nextId <= MaxSessions
  /\ used + 1 + Len(t0.textStream) <= MaxInput
  /\ used' = used + 1 + Len(t0.textStream)
  /\ LET s == nextId
         c == abortControllerRef
         e == Begin(t0, FALSE, FALSE)
         shown == IF e.dt # <<>> THEN e.dt[1] ELSE <<>>
     IN /\ aborted' = IF c # 0 THEN [aborted EXCEPT ![c] = TRUE] ELSE aborted
        /\ task' = IF Forgotten(c, task) THEN [task EXCEPT ![c] = DoneTask, ![s] = e.t]
                   ELSE [task EXCEPT ![s] = e.t]
        /\ consumed' = IF Forgotten(c, task) THEN [consumed EXCEPT ![c] = <<>>] ELSE consumed
        /\ lastShown' = IF Forgotten(c, task) THEN [lastShown EXCEPT ![c] = <<>>, ![s] = shown]
                        ELSE [lastShown EXCEPT ![s] = shown]
        /\ displayedText' = shown
        /\ segments' = IF e.sg # <<>> THEN e.sg[1] ELSE <<>>
        /\ isComplete' = e.fin
        /\ onCompleteCalls' = [onCompleteCalls EXCEPT ![s] = IF e.fin THEN @ + 1 ELSE @]
        /\ abortControllerRef' = s
  /\ pauseRef' = FALSE
  /\ nextId' = nextId + 1
  /\ UNCHANGED <<onErrorCalls, raised, pacing>>

StartString ==
  \E str \in Texts, mode \in Modes, speed \in Speeds, ov \in Overrides :
    Start(StringTask(str, mode, GetCharacterChunkSize(speed, ov)))

StartIter ==
  \E mode \in Modes : Start(IterTask(mode))

\* The run of a task with locals t when the timer it awaits fires
WakeOf(t, ab, paused) ==
  CASE t.pc = "tw_pause" -> TwPauseWake(t, ab, paused)
    [] t.pc = "tw_delay" -> TwDelayWake(t, ab, paused)
    [] t.pc = "fd_pause" -> FdPauseWake(t, ab, paused)
    [] t.pc = "fd_delay" -> FdDelayWake(t, ab, paused)
    [] t.pc = "itf_pause" -> ItfPauseWake(t, ab, paused)
    [] t.pc = "itf_delay" -> ItfDelayWake(t, ab, paused)

\* The run of session s when the timer it awaits fires
TimerRun(s) == WakeOf(task[s], aborted[s], pauseRef)

AtTimer(s) ==
  task[s].pc \in {"tw_pause", "tw_delay", "fd_pause", "fd_delay", "itf_pause", "itf_delay"}

\* A timer of session s fires: the task runs on from its await.
Timer(s) ==
  /\ AtTimer(s)
  /\ Apply(s, TimerRun(s), <<>>, displayedText, segments, isComplete)
  /\ UNCHANGED <<pauseRef, abortControllerRef, aborted, nextId, raised, used, pacing>>

\* line 139: the iterator of session s yields a fragment
Yield(s) ==
  /\ task[s].pc = "it_next"
  /\ \E chunk \in Fragments :
       /\ used + Len(chunk) <= MaxInput
       /\ used' = used + Len(chunk)
       /\ Apply(s, ItChunk(task[s], aborted[s], pauseRef, chunk), <<chunk>>,
                displayedText, segments, isComplete)
  /\ UNCHANGED <<pauseRef, abortControllerRef, aborted, nextId, raised, pacing>>

\* line 139: the iterator of session s is exhausted
Exhaust(s) ==
  /\ task[s].pc = "it_next"
  /\ Apply(s, ItEnd(task[s], aborted[s]), <<>>, displayedText, segments, isComplete)
  /\ UNCHANGED <<pauseRef, abortControllerRef, aborted, nextId, raised, used, pacing>>

\* line 139: the iterator of session s throws
Throw(s) ==
  /\ task[s].pc = "it_next"
  /\ \E err \in Errors :
       /\ raised' = [raised EXCEPT ![s] = Append(@, err)]
       /\ Apply(s, Catch(task[s], aborted[s], err), <<>>, displayedText, segments, isComplete)
  /\ UNCHANGED <<pauseRef, abortControllerRef, aborted, nextId, used, pacing>>

Next ==
  \/ Reset
  \/ Pause
  \/ Resume
  \/ Cleanup
  \/ StartString
  \/ StartIter
  \/ \E s \in Sessions : Timer(s)
  \/ \E s \in Sessions : Yield(s)
  \/ \E s \in Sessions : Exhaust(s)
  \/ \E s \in Sessions : Throw(s)

Spec == Init /\ [][Next]_vars

\* Timers set with setTimeout fire (lines 99, 107, 119, 127, 156, 164), and
\* a fragment sequence is finite: its iterator ends once it stops yielding.
FairSpec ==
  Spec /\ \A s \in Sessions : WF_vars(Timer(s)) /\ WF_vars(Exhaust(s))

\* ------------------------------------------------------ the pacing getters
\* The hook is mounted with a speed from 1 to 100 and with or without each
\* override; then a pacing getter is called.
SpeedRange == 1..100
OverrideValues == {<<>>, <<0>>, <<300>>}

hookVars == <<displayedText, isComplete, segments, pauseRef, abortControllerRef, aborted,
              task, nextId, consumed, onCompleteCalls, onErrorCalls, raised, lastShown, used>>

PacingInit ==
  /\ HookInit
  /\ \E speed \in SpeedRange, fd \in OverrideValues, sd \in OverrideValues,
        cs \in OverrideValues :
       pacing = [DefaultProps EXCEPT !.speed = speed, !.fadeDuration = fd,
                                     !.segmentDelay = sd, !.characterChunkSize = cs]

Got(name, value) ==
  /\ pacing' = [pacing EXCEPT !.got = <<[getter |-> name, value |-> value]>>]
  /\ UNCHANGED hookVars

CallGetFadeDuration ==
  Got("getFadeDuration", GetFadeDuration(pacing.speed, pacing.fadeDuration))

CallGetSegmentDelay ==
  Got("getSegmentDelay", GetSegmentDelay(pacing.speed, pacing.segmentDelay))

CallGetCharacterChunkSize ==
  Got("getCharacterChunkSize", GetCharacterChunkSize(pacing.speed, pacing.characterChunkSize))

PacingNext ==
  \/ CallGetFadeDuration
  \/ CallGetSegmentDelay
  \/ CallGetCharacterChunkSize

PacingSpec == PacingInit /\ [][PacingNext]_vars

\* ------------------------------------------------- what a session can do
\* The runs session s can make next: one for the timer it awaits, or one
\* for each thing its iterator can do.
Runs(s) ==
  IF AtTimer(s) THEN {TimerRun(s)}
  ELSE IF task[s].pc = "it_next"
       THEN {ItChunk(task[s], aborted[s], pauseRef, chunk) :
               chunk \in {c \in Fragments : used + Len(c) <= MaxInput}}
            \cup {ItEnd(task[s], aborted[s])}
            \cup {Catch(task[s], aborted[s], err) : err \in Errors}
       ELSE {}

\* the run updates displayedText or segments
Writes(e) == e.dt # <<>> \/ e.sg # <<>>

Started(s) == s < nextId
Returned(s) == task[s].pc = "done"
\* session s ran to the end of its source: it returned, uncancelled and without a fault
Finished(s) == Returned(s) /\ ~aborted[s] /\ raised[s] = <<>>

\* --------------------------------------------------------------- claims

\* C1: once the signal of a session is aborted (by reset(), a new start or
\* the effect's cleanup), no later run of that session updates
\* displayedText or segments.
CancellationHaltsEmission ==
  \A s \in Sessions : aborted[s] => \A e \in Runs(s) : ~Writes(e)

\* C2: once a newer session has started, no run of an earlier session
\* writes displayedText or segments.
NewSessionReplacesPrior ==
  \A s \in Sessions : (Started(s) /\ s + 1 < nextId) => \A e \in Runs(s) : ~Writes(e)

\* C3: while the pause flag is set no run changes displayedText, apart from
\* the deferred setDisplayedText of words that were staged before pause().
PauseBlocksProgress ==
  pauseRef =>
    \A s \in Sessions : \A e \in Runs(s) :
      task[s].pc # "itf_delay" => (e.dt = <<>> \/ e.dt[1] = displayedText)

\* C4: a session whose source is fully consumed and that was not cancelled
\* has set isComplete and called onComplete exactly once; no session calls
\* onComplete twice; a session that has called onComplete makes no further
\* run, so no update follows its completion.
CompletionFiresOnce ==
  \A s \in Sessions :
    /\ onCompleteCalls[s] <= 1
    /\ Finished(s) => (onCompleteCalls[s] = 1 /\ isComplete)
    /\ onCompleteCalls[s] >= 1 => Runs(s) = {}

CompletionFiresOnceWitness ==
  \E s \in Sessions :
    Finished(s) /\ onCompleteCalls[s] = 1 /\ isComplete /\ Len(lastShown[s]) >= 2

\* C5: no run of a session whose signal is aborted sets isComplete or calls
\* onComplete, and a session that returned without completing and without
\* a fault is a cancelled one.
CancelledNeverCompletes ==
  \A s \in Sessions :
    /\ aborted[s] => \A e \in Runs(s) : ~e.fin
    /\ (Returned(s) /\ onCompleteCalls[s] = 0 /\ raised[s] = <<>>) => aborted[s]

CancelledNeverCompletesWitness ==
  \E s \in Sessions :
    /\ Returned(s) /\ aborted[s] /\ raised[s] = <<>>
    /\ onCompleteCalls[s] = 0 /\ ~isComplete

\* ---- helpers of the claims about texts
IsPrefix(p, q) == Len(p) <= Len(q) /\ SubSeq(q, 1, Len(p)) = p

\* the concatenation of a sequence of texts
RECURSIVE Flatten(_)
Flatten(texts) == IF texts = <<>> THEN <<>> ELSE Head(texts) \o Flatten(Tail(texts))

\* the concatenation of the texts of segments
SegmentsText(segs) == Flatten([k \in 1..Len(segs) |-> segs[k].text])

\* every word followed by one space
Spaced(words) == Flatten([k \in 1..Len(words) |-> words[k] \o <<" ">>])

\* the non-empty words of a text
WordsOf(str) == SelectSeq(Split(str), LAMBDA w : w # <<>>)

\* the word a segment stages: its text without the space appended to it
StagedWord(seg) ==
  IF seg.text # <<>> /\ seg.text[Len(seg.text)] = " "
  THEN SubSeq(seg.text, 1, Len(seg.text) - 1) ELSE seg.text

StagedWords(segs) == [k \in 1..Len(segs) |-> StagedWord(segs[k])]

IndexedInOrder(segs) == \A k \in 1..Len(segs) : segs[k].index = k - 1

\* the text of the source of session s
SourceText(s) ==
  IF task[s].kind = "string" THEN task[s].textStream ELSE Flatten(consumed[s])

IsString(s, mode) == task[s].kind = "string" /\ task[s].mode = mode
IsIter(s, mode) == task[s].kind = "iter" /\ task[s].mode = mode

\* C6 as claimed: for a string source every value a session shows extends
\* the one it showed before, and a session that ran to the end has shown
\* the input string exactly, in either mode.
StringOrderAndFinalExact ==
  \A s \in Sessions :
    task[s].kind = "string" =>
      /\ \A e \in Runs(s) : e.dt # <<>> => IsPrefix(lastShown[s], e.dt[1])
      /\ Finished(s) => lastShown[s] = task[s].textStream

\* C6 as amended: for a string source every value a session shows extends
\* the one it showed before; a session that ran to the end has shown the
\* input exactly in typewriter mode, and in fade mode the words of
\* split(/\s+/), each followed by one space.
StringOrderAndFinal ==
  \A s \in Sessions :
    task[s].kind = "string" =>
      /\ \A e \in Runs(s) : e.dt # <<>> => IsPrefix(lastShown[s], e.dt[1])
      /\ (Finished(s) /\ task[s].mode = "typewriter") => lastShown[s] = task[s].textStream
      /\ (Finished(s) /\ task[s].mode = "fade") =>
           lastShown[s] = Spaced(Split(task[s].textStream))

StringOrderAndFinalWitness ==
  \E s \in Sessions :
    /\ IsString(s, "fade") /\ Finished(s)
    /\ Len(task[s].newSegments) >= 2
    /\ lastShown[s] # task[s].textStream
    /\ displayedText = lastShown[s]

\* C7 as claimed: after a fade session ran to the end, the texts of its
\* segments concatenated are the source text.
FadeSegmentsAreSource ==
  \A s \in Sessions :
    (task[s].mode = "fade" /\ Finished(s)) =>
      SegmentsText(task[s].newSegments) = SourceText(s)

\* C7 as amended: after a fade session ran to the end, the texts of its
\* segments concatenated hold the non-empty words of the source, each once
\* and in order; for a string source they are the words of split(/\s+/),
\* each followed by one space.  Runs of whitespace are not reproduced.
FadeSegmentsKeepWords ==
  \A s \in Sessions :
    (task[s].mode = "fade" /\ Finished(s)) =>
      /\ WordsOf(SegmentsText(task[s].newSegments)) = WordsOf(SourceText(s))
      /\ task[s].kind = "string" =>
           SegmentsText(task[s].newSegments) = Spaced(Split(task[s].textStream))

FadeSegmentsKeepWordsWitness ==
  \E s \in Sessions :
    /\ IsIter(s, "fade") /\ Finished(s)
    /\ Len(consumed[s]) >= 2
    /\ WordsOf(SourceText(s)) # <<>>
    /\ SegmentsText(task[s].newSegments) # SourceText(s)

FragmentsStageWordsOfString ==
  \A s \in Sessions :
    (IsIter(s, "fade") /\ Finished(s) /\ WordsOf(SourceText(s)) # <<>>) =>
      StagedWords(task[s].newSegments) = Split(SourceText(s))

\* C10: a fault of the iterator of a session that is not cancelled is
\* passed to onError, once; the run that catches it writes nothing and
\* does not complete; the session has returned, so it makes no further
\* update, and it has not called onComplete.
SourceFaultReported ==
  \A s \in Sessions :
    /\ (task[s].pc = "it_next" /\ ~aborted[s]) =>
         \A err \in Errors :
           LET e == Catch(task[s], aborted[s], err)
           IN e \in Runs(s) /\ e.err = <<err>> /\ ~Writes(e) /\ ~e.fin /\ e.t.pc = "done"
    /\ Len(raised[s]) <= 1
    /\ onErrorCalls[s] # <<>> => onErrorCalls[s] = raised[s]
    /\ (raised[s] # <<>> /\ ~aborted[s]) => onErrorCalls[s] = raised[s]
    /\ raised[s] # <<>> => (Returned(s) /\ Runs(s) = {} /\ onCompleteCalls[s] = 0)

SourceFaultReportedWitness ==
  \E s \in Sessions :
    /\ raised[s] # <<>> /\ ~aborted[s] /\ onErrorCalls[s] = raised[s]
    /\ consumed[s] # <<>> /\ displayedText # <<>> /\ ~isComplete

\* C11: reset() can be called in every state (idle, running, paused,
\* completed, faulted); it leaves displayedText and segments empty,
\* isComplete and the pause flag false and the signal of the current
\* session (of every session started so far) aborted; a second reset()
\* called in the state the first one leaves changes nothing.
ResetTotalAndIdempotent ==
  LET r == ResetOf(Hook)
  IN /\ ENABLED Reset
     /\ r.displayedText = <<>> /\ r.segments = <<>>
     /\ ~r.isComplete /\ ~r.pauseRef
     /\ abortControllerRef # 0 => r.aborted[abortControllerRef]
     /\ \A s \in Sessions : Started(s) => r.aborted[s]
     /\ ResetOf(r) = r

\* reset() was called while a session that had shown text was waiting on
\* the pause flag
ResetTotalAndIdempotentWitness ==
  /\ abortControllerRef = 0 /\ displayedText = <<>> /\ ~pauseRef
  /\ \E s \in Sessions :
       /\ Started(s) /\ aborted[s] /\ lastShown[s] # <<>>
       /\ task[s].pc \in {"tw_pause", "fd_pause", "itf_pause"}

CeilDiv(n, c) == (n + c - 1) \div c

\* C12: typewriter mode on a string with chunk size c >= 1: the k-th value
\* of displayedText is the first min(k*c, len) characters of the string,
\* there are exactly ceil(len/c) of them, and isComplete is set only after
\* the last one.  After the k-th update the loop index i is (k-1)*c.
TypewriterChunks == \A s \in Sessions :
  (IsString(s, "typewriter") /\ task[s].chunkSize >= 1) =>
    LET t == task[s]
        c == t.chunkSize
        len == Len(t.textStream)
        k == IF t.pc = "tw_delay" THEN (t.i \div c) + 1 ELSE t.i \div c
    IN /\ t.i % c = 0
       /\ t.pc = "tw_delay" => k <= CeilDiv(len, c)
       /\ t.currentText = SubSeq(t.textStream, 1, Min(k * c, len))
       /\ lastShown[s] = t.currentText
       /\ Finished(s) => k = CeilDiv(len, c)
       /\ \A e \in Runs(s) :
            /\ e.dt # <<>> => e.dt[1] = SubSeq(t.textStream, 1, Min((k + 1) * c, len))
            /\ e.fin => (e.dt = <<>> /\ k = CeilDiv(len, c))

\* a string of three characters was shown in chunks of two: two updates,
\* the second one shorter
TypewriterChunksWitness == \E s \in Sessions :
  /\ IsString(s, "typewriter") /\ Finished(s) /\ isComplete
  /\ task[s].chunkSize = 2 /\ Len(task[s].textStream) = 3
  /\ lastShown[s] = task[s].textStream /\ task[s].i = 4

\* C13: fade mode on a string whose split(/\s+/) gives w0..wN-1: step i
\* appends the segment {text: wi + " ", index: i} and sets displayedText to
\* w0..wi joined by single spaces plus a trailing space, both in the same
\* run; n is the number of steps the session has made.
FadeStringSteps == \A s \in Sessions :
  IsString(s, "fade") =>
    LET t == task[s]
        w == Split(t.textStream)
        n == IF t.pc = "fd_delay" THEN t.i + 1 ELSE t.i
        SegsUpTo(m) == [j \in 1..m |-> [text |-> w[j] \o <<" ">>, index |-> j - 1]]
        ShownUpTo(m) == IF m = 0 THEN <<>> ELSE Join(SubSeq(w, 1, m), <<" ">>) \o <<" ">>
    IN /\ n <= Len(w)
       /\ t.newSegments = SegsUpTo(n)
       /\ lastShown[s] = ShownUpTo(n)
       /\ Finished(s) => n = Len(w)
       /\ \A e \in Runs(s) :
            /\ (e.sg # <<>>) <=> (e.dt # <<>>)
            /\ e.sg # <<>> => (e.sg[1] = SegsUpTo(n + 1) /\ e.dt[1] = ShownUpTo(n + 1))
            /\ e.fin => (~Writes(e) /\ n = Len(w))

\* the string "a a" was revealed to the end: segments {"a ", 0}, {"a ", 1}
\* and displayedText "a a "
FadeStringStepsWitness == \E s \in Sessions :
  /\ IsString(s, "fade") /\ Finished(s)
  /\ task[s].textStream = <<"a", " ", "a">>
  /\ segments = <<[text |-> <<"a", " ">>, index |-> 0], [text |-> <<"a", " ">>, index |-> 1]>>
  /\ displayedText = <<"a", " ", "a", " ">>

\* C14 as claimed: a session that waits on the pause flag and is cancelled
\* (by reset(), a new start or the cleanup) stops waiting and commits no
\* further chunk or segment: the step it held back is never emitted.
CancelledPauseEmitsNothing == \A s \in Sessions :
  (aborted[s] /\ task[s].pc \in {"tw_pause", "fd_pause", "itf_pause"}) =>
    \A e \in Runs(s) :
      /\ e.t.pc \notin {"tw_pause", "fd_pause", "itf_pause"}
      /\ e.dt = <<>> /\ e.sg = <<>>
      /\ e.t.currentText = task[s].currentText
      /\ e.t.newSegments = task[s].newSegments

\* The run of a source that is never paused and never cancelled: the last
\* displayedText and segments it sets and whether it completes.
TimerPcs == {"tw_pause", "tw_delay", "fd_pause", "fd_delay", "itf_pause", "itf_delay"}
RunStart == [t |-> IdleTask, dt |-> <<>>, sg |-> <<>>, fin |-> FALSE]
RunStep(r, e) ==
  [t |-> e.t,
   dt |-> IF e.dt # <<>> THEN e.dt[1] ELSE r.dt,
   sg |-> IF e.sg # <<>> THEN e.sg[1] ELSE r.sg,
   fin |-> r.fin \/ e.fin]

\* the timers of the task fire until it awaits its iterator or returns
\* (at most fuel of them)
RECURSIVE RunTimers(_, _)
RunTimers(r, fuel) ==
  IF r.t.pc \in TimerPcs /\ fuel > 0
  THEN RunTimers(RunStep(r, WakeOf(r.t, FALSE, FALSE)), fuel - 1)
  ELSE r

RECURSIVE RunFragments(_, _)
RunFragments(r, frags) ==
  IF frags = <<>> THEN r
  ELSE RunFragments(RunTimers(RunStep(r, ItChunk(r.t, FALSE, FALSE, Head(frags))), MaxInput + 1),
                    Tail(frags))

NeverPaused(t0, frags) ==
  LET r0 == RunTimers(RunStep(RunStart, Begin(t0, FALSE, FALSE)), MaxInput + 1)
      r1 == RunFragments(r0, frags)
  IN IF t0.kind = "iter" THEN RunStep(r1, ItEnd(r1.t, FALSE)) ELSE r0

\* the locals session s started with
InitialTask(s) ==
  IF task[s].kind = "string"
  THEN StringTask(task[s].textStream, task[s].mode, task[s].chunkSize)
  ELSE IterTask(task[s].mode)

\* the never-paused run of the source of session s (for fragments: of the
\* fragments consumed so far, then exhaustion)
Reference(s) == NeverPaused(InitialTask(s), consumed[s])

SameAsNeverPaused == \A s \in Sessions :
  Finished(s) =>
    /\ Reference(s).fin /\ isComplete
    /\ lastShown[s] = Reference(s).dt
    /\ task[s].newSegments = Reference(s).sg
    /\ nextId = 2 => (displayedText = Reference(s).dt /\ segments = Reference(s).sg)

Unhindered(s) ==
  /\ Started(s) /\ ~aborted[s] /\ raised[s] = <<>>
  /\ ~pauseRef
  /\ task[s].kind = "string" => Reference(s).fin

\* C15: pause does not cancel.  A session that is paused and resumed, is
\* not cancelled and whose source does not fail runs to the end once it
\* is no longer paused, if its timers fire and its fragment sequence ends;
\* what it has shown and staged at the end, and isComplete, are those of
\* the never-paused run of the same source in the same mode.
PauseDoesNotCancel ==
  /\ []SameAsNeverPaused
  /\ \A s \in Sessions : <>[]Unhindered(s) => <>Finished(s)

\* a session that has shown text entered the pause loop, and resume() was called
PauseDoesNotCancelWitness == \E s \in Sessions :
  /\ Started(s) /\ ~aborted[s] /\ ~pauseRef
  /\ task[s].pc \in {"tw_pause", "fd_pause", "itf_pause"}
  /\ lastShown[s] # <<>>

\* C16: cancellation suppresses faults.  When the fragment sequence of a
\* session raises after the session's signal was aborted, no run of the
\* session passes an error to onError; the catch clause ends the call, so
\* the error does not leave startStreaming.
CancelledFaultSuppressed == \A s \in Sessions :
  /\ aborted[s] => \A e \in Runs(s) : e.err = <<>>
  /\ \A err \in Errors : Catch(task[s], aborted[s], err).t.pc = "done"
  /\ raised[s] # <<>> => (Returned(s) /\ Len(raised[s]) = 1)
  /\ Len(onErrorCalls[s]) <= Len(raised[s])

\* the iterator of a cancelled session threw, and onError was not called
CancelledFaultSuppressedWitness == \E s \in Sessions :
  aborted[s] /\ raised[s] # <<>> /\ onErrorCalls[s] = <<>> /\ Returned(s)

\* C17: typewriter mode on a fragment sequence: each fragment is appended
\* whole, so after the k-th fragment the text shown is the concatenation
\* of fragments 1..k, and a session that was not cancelled and whose
\* sequence is exhausted has shown the concatenation of all fragments.
FragmentTypewriterConcat == \A s \in Sessions :
  IsIter(s, "typewriter") =>
    /\ task[s].currentText = Flatten(consumed[s])
    /\ lastShown[s] = Flatten(consumed[s])
    /\ ~aborted[s] =>
         \A chunk \in Fragments :
           ItChunk(task[s], aborted[s], pauseRef, chunk).dt = <<Flatten(consumed[s]) \o chunk>>
    /\ (~aborted[s] /\ nextId = 2) => displayedText = Flatten(consumed[s])
    /\ \A e \in Runs(s) : e.fin => e.dt = <<>>

\* two fragments or more were consumed and the sequence was exhausted
FragmentTypewriterConcatWitness == \E s \in Sessions :
  /\ IsIter(s, "typewriter") /\ Finished(s) /\ isComplete
  /\ Len(consumed[s]) >= 2
  /\ displayedText = Flatten(consumed[s])

\* C18: the final flush of fade mode on a fragment sequence.  When the
\* sequence is exhausted and the session is not cancelled, a non-empty word
\* buffer becomes exactly one more segment whose text is the buffer itself
\* (no trailing space) with the next index, and displayedText becomes the
\* text shown before followed by the buffer; an empty buffer adds nothing.
FinalFlush == \A s \in Sessions :
  (IsIter(s, "fade") /\ ~aborted[s]) =>
    LET t == task[s]
        e == ItEnd(t, aborted[s])
        flushed == [text |-> t.wordBuffer, index |-> Len(t.newSegments)]
    IN /\ t.pc = "it_next" =>
            /\ e.fin
            /\ t.wordBuffer # <<>> =>
                 /\ e.sg = <<Append(t.newSegments, flushed)>>
                 /\ e.dt = <<lastShown[s] \o t.wordBuffer>>
            /\ t.wordBuffer = <<>> => ~Writes(e) /\ e.t.newSegments = t.newSegments
       /\ \A j \in 1..Len(t.wordBuffer) : ~IsWs(t.wordBuffer[j])
       /\ Finished(s) =>
            IF t.wordBuffer # <<>>
            THEN /\ t.newSegments # <<>>
                 /\ t.newSegments[Len(t.newSegments)] =
                      [text |-> t.wordBuffer, index |-> Len(t.newSegments) - 1]
                 /\ lastShown[s] = t.currentText \o t.wordBuffer
                 /\ \A j \in 1..(Len(t.newSegments) - 1) :
                      t.newSegments[j].text[Len(t.newSegments[j].text)] = " "
            ELSE /\ lastShown[s] = t.currentText
                 /\ \A j \in 1..Len(t.newSegments) :
                      t.newSegments[j].text[Len(t.newSegments[j].text)] = " "

\* the sequence ended in the middle of a word, after a whole word was staged
FinalFlushWitness == \E s \in Sessions :
  /\ IsIter(s, "fade") /\ Finished(s)
  /\ task[s].wordBuffer # <<>> /\ Len(task[s].newSegments) >= 2
  /\ segments = task[s].newSegments
  /\ displayedText = task[s].currentText \o task[s].wordBuffer

\* C19 as claimed: in typewriter mode on a string, under every accepted
\* configuration (speed, with or without a characterChunkSize override), a
\* session that is never paused and never cancelled completes after
\* finitely many steps: each firing of its pacing timer either ends the
\* session or moves the loop index forward.
TypewriterTerminates == \A s \in Sessions :
  (IsString(s, "typewriter") /\ ~aborted[s] /\ task[s].pc = "tw_delay") =>
    LET e == WakeOf(task[s], FALSE, FALSE)
    IN e.fin \/ e.t.i > task[s].i

\* C20: speed-derived pacing stays in range.  For every integer speed from
\* 1 to 100 and no override, the chunk size is an integer from 1 to 5 and
\* does not decrease with speed, the segment delay is from 10 to 200 ms
\* and does not increase with speed, the fade duration is from 50 to 800
\* ms and does not increase with speed; a getter whose override is given
\* returns the override.
PacingInRange ==
  \A k \in 1..Len(pacing.got) :
    LET g == pacing.got[k]
        speed == pacing.speed
        faster == speed + 1
    IN /\ g.getter = "getCharacterChunkSize" =>
            IF pacing.characterChunkSize # <<>> THEN g.value = pacing.characterChunkSize[1]
            ELSE /\ g.value \in 1..5
                 /\ faster \in SpeedRange => g.value <= GetCharacterChunkSize(faster, <<>>)
       /\ g.getter = "getSegmentDelay" =>
            IF pacing.segmentDelay # <<>> THEN g.value = pacing.segmentDelay[1]
            ELSE /\ g.value \in 10..200
                 /\ faster \in SpeedRange => g.value >= GetSegmentDelay(faster, <<>>)
       /\ g.getter = "getFadeDuration" =>
            IF pacing.fadeDuration # <<>> THEN g.value = pacing.fadeDuration[1]
            ELSE /\ g.value \in 50..800
                 /\ faster \in SpeedRange => g.value >= GetFadeDuration(faster, <<>>)

\* at speed 100 and without an override the segment delay is 10 ms
PacingInRangeWitness ==
  /\ pacing.speed = 100 /\ pacing.segmentDelay = <<>>
  /\ pacing.got = <<[getter |-> "getSegmentDelay", value |-> 10]>>

\* C21: within one fade session (string or fragments), with no other
\* session started and the session not cancelled, displayedText is in
\* every state a prefix of the concatenation of the texts of segments in
\* index order, and equals it once the session has completed.  The same
\* holds of what each fade session has itself shown and staged.
FadeTextWithinSegments == \A s \in Sessions :
  (IsString(s, "fade") \/ IsIter(s, "fade")) =>
    /\ IndexedInOrder(task[s].newSegments)
    /\ IsPrefix(lastShown[s], SegmentsText(task[s].newSegments))
    /\ Finished(s) => lastShown[s] = SegmentsText(task[s].newSegments)
    /\ (nextId = 2 /\ ~aborted[s]) =>
         /\ IndexedInOrder(segments)
         /\ IsPrefix(displayedText, SegmentsText(segments))
         /\ Finished(s) => (isComplete /\ displayedText = SegmentsText(segments))

\* the only session, in fade mode on fragments, has staged a word that
\* displayedText does not show yet
FadeTextWithinSegmentsWitness ==
  /\ nextId = 2 /\ ~aborted[1] /\ IsIter(1, "fade")
  /\ segments # <<>> /\ displayedText # <<>>
  /\ Len(displayedText) < Len(SegmentsText(segments))

====
